---- MODULE Spec2Model ----
(***************************************************************************)
(* eCourts scraper: the CNR / case-detail search pipeline of               *)
(* src/ecourts_scraper/scraper.py and its API and CLI callers.             *)
(*                                                                         *)
(* Python strings whose content the code inspects (substring tests, case   *)
(* folding, stripping) are sequences of one-character strings; HTML         *)
(* documents are the trees html.parser builds: a node is a text node, a    *)
(* comment or an element with attributes and children.                     *)
(***************************************************************************)
EXTENDS Integers, Sequences, FiniteSets, TLC

(***************************************************************************)
(* str                                                                     *)
(***************************************************************************)
\* str.lower() on one character
LowerChar(c) ==
    CASE c = "A" -> "a" [] c = "B" -> "b" [] c = "C" -> "c" [] c = "D" -> "d"
      [] c = "E" -> "e" [] c = "F" -> "f" [] c = "G" -> "g" [] c = "H" -> "h"
      [] c = "I" -> "i" [] c = "J" -> "j" [] c = "K" -> "k" [] c = "L" -> "l"
      [] c = "M" -> "m" [] c = "N" -> "n" [] c = "O" -> "o" [] c = "P" -> "p"
      [] c = "Q" -> "q" [] c = "R" -> "r" [] c = "S" -> "s" [] c = "T" -> "t"
      [] c = "U" -> "u" [] c = "V" -> "v" [] c = "W" -> "w" [] c = "X" -> "x"
      [] c = "Y" -> "y" [] c = "Z" -> "z"
      [] OTHER -> c

\* str.upper() on one character
UpperChar(c) ==
    CASE c = "a" -> "A" [] c = "b" -> "B" [] c = "c" -> "C" [] c = "d" -> "D"
      [] c = "e" -> "E" [] c = "f" -> "F" [] c = "g" -> "G" [] c = "h" -> "H"
      [] c = "i" -> "I" [] c = "j" -> "J" [] c = "k" -> "K" [] c = "l" -> "L"
      [] c = "m" -> "M" [] c = "n" -> "N" [] c = "o" -> "O" [] c = "p" -> "P"
      [] c = "q" -> "Q" [] c = "r" -> "R" [] c = "s" -> "S" [] c = "t" -> "T"
      [] c = "u" -> "U" [] c = "v" -> "V" [] c = "w" -> "W" [] c = "x" -> "X"
      [] c = "y" -> "Y" [] c = "z" -> "Z"
      [] OTHER -> c

lower(s) == [i \in 1..Len(s) |-> LowerChar(s[i])]

upper(s) == [i \in 1..Len(s) |-> UpperChar(s[i])]

\* Python's  w in s  on strings
In(w, s) ==
    \E i \in 0..(Len(s) - Len(w)) : SubSeq(s, i + 1, i + Len(w)) = w

IsSpace(c) == c \in {" ", "\n", "\t"}

RECURSIVE lstrip(_)
lstrip(s) ==
    IF s # <<>> /\ IsSpace(Head(s)) THEN lstrip(Tail(s)) ELSE s

RECURSIVE rstrip(_)
rstrip(s) ==
    IF s # <<>> /\ IsSpace(s[Len(s)]) THEN rstrip(SubSeq(s, 1, Len(s) - 1)) ELSE s

strip(s) == rstrip(lstrip(s))

\* s[:n]
Take(s, n) == SubSeq(s, 1, IF Len(s) < n THEN Len(s) ELSE n)

RECURSIVE Concat(_)
Concat(ss) == IF ss = <<>> THEN <<>> ELSE Head(ss) \o Concat(Tail(ss))

\* an f-string: its fixed text and the value formatted into it
Msg(fmt, arg) == [fmt |-> fmt, arg |-> arg]

(***************************************************************************)
(* BeautifulSoup documents                                                 *)
(***************************************************************************)
Text(s) == [tag |-> "#text", s |-> s]

Comment(s) == [tag |-> "#comment", s |-> s]

El(tag, attrs, kids) == [tag |-> tag, attrs |-> attrs, kids |-> kids]

NoAttrs == <<>>

IsString(n) == n.tag \in {"#text", "#comment"}

\* BeautifulSoup(content, 'html.parser'): the document root over the parsed nodes
BeautifulSoup(nodes) == El("[document]", NoAttrs, nodes)

\* Tag.descendants: every node below n, in document order
RECURSIVE descendants(_)
descendants(n) ==
    IF IsString(n) THEN <<>>
    ELSE Concat([i \in 1..Len(n.kids) |-> <<n.kids[i]>> \o descendants(n.kids[i])])

\* Tag.find_all(names, ...): the elements below n with one of the names that
\* satisfy Match, in document order
find_all(n, names, Match(_)) ==
    SelectSeq(descendants(n), LAMBDA e : e.tag \in names /\ Match(e))

\* Tag.get(name, default)
get(e, name, default) ==
    IF name \in DOMAIN e.attrs THEN e.attrs[name] ELSE default

has_attr(e, name) == name \in DOMAIN e.attrs

\* Tag.string: the single string below the element, as a sequence of zero
\* (None) or one string; a comment is a string too
RECURSIVE string(_)
string(e) ==
    IF IsString(e) THEN <<e.s>>
    ELSE IF Len(e.kids) # 1 THEN <<>>
    ELSE string(e.kids[1])

\* Tag.get_text(strip=...): the text nodes below, comments left out, joined
\* with no separator; with strip each is stripped and empty ones are dropped
RECURSIVE get_text(_, _)
get_text(n, stripped) ==
    IF n.tag = "#text" THEN (IF stripped THEN strip(n.s) ELSE n.s)
    ELSE IF n.tag = "#comment" THEN <<>>
    ELSE Concat([i \in 1..Len(n.kids) |-> get_text(n.kids[i], stripped)])

\* for x in soup(names): x.decompose()
RECURSIVE decompose(_, _)
decompose(n, names) ==
    IF IsString(n) THEN n
    ELSE LET kept == SelectSeq(n.kids, LAMBDA k : k.tag \notin names)
         IN  [n EXCEPT !.kids = [i \in 1..Len(kept) |-> decompose(kept[i], names)]]

(***************************************************************************)
(* Result Classifier: ECourtsScraper._parse_search_results                 *)
(***************************************************************************)
ErrorWords == {<<"e","r","r","o","r">>, <<"i","n","v","a","l","i","d">>, <<"n","o","t"," ","f","o","u","n","d">>, <<"i","n","c","o","r","r","e","c","t">>}

StatusWords == {<<"l","i","s","t","e","d">>, <<"p","e","n","d","i","n","g">>, <<"d","i","s","p","o","s","e","d">>, <<"h","e","a","r","i","n","g">>}

CaseKeywords == {<<"c","a","s","e">>, <<"c","o","u","r","t">>, <<"s","t","a","t","u","s">>, <<"d","a","t","e">>, <<"j","u","d","g","e">>}

CssIndicators ==
    {<<"{">>, <<"}">>, <<"p","a","d","d","i","n","g",":">>, <<"m","a","r","g","i","n",":">>, <<"b","o","r","d","e","r",":">>, <<"c","o","l","o","r",":">>, <<"f","o","n","t","-">>}

TextTags == {"div", "span", "p", "td"}

\* text=lambda text: text and any(word in text.lower() for word in words)
text_matches(e, words) ==
    LET t == string(e)
    IN  t # <<>> /\ t[1] # <<>> /\ \E word \in words : In(word, lower(t[1]))

\* the CSS test looking for braces only
looks_like_css_braces_only(text) == In(<<"{">>, text) \/ In(<<"}">>, text)

\* any(css_indicator in text for css_indicator in [...])
looks_like_css(text) == \E css_indicator \in CssIndicators : In(css_indicator, text)

\* the filter loops: the stripped text of each element that does not look like CSS
clean_texts(elements) ==
    SelectSeq([i \in 1..Len(elements) |-> get_text(elements[i], TRUE)],
              LAMBDA text : ~looks_like_css(text))

\* for table in tables: for row in table.find_all('tr')
table_rows(soup) ==
    LET tables == find_all(soup, {"table"}, LAMBDA e : TRUE)
    IN  Concat([i \in 1..Len(tables) |-> find_all(tables[i], {"tr"}, LAMBDA e : TRUE)])

\* the body of the row loop, over the rows in order: a later row with the
\* same key replaces the earlier entry
RECURSIVE collect_case_info(_, _)
collect_case_info(rows, case_info) ==
    IF rows = <<>> THEN case_info
    ELSE LET cells == find_all(Head(rows), {"td", "th"}, LAMBDA e : TRUE)
             key   == lower(get_text(cells[1], TRUE))
             value == get_text(cells[2], TRUE)
             hit   == Len(cells) >= 2 /\ \E keyword \in CaseKeywords : In(keyword, key)
         IN  collect_case_info(Tail(rows),
                 IF hit THEN (key :> value) @@ case_info ELSE case_info)

error_elements(soup) ==
    find_all(soup, TextTags, LAMBDA e : text_matches(e, ErrorWords))

status_elements(soup) ==
    find_all(soup, TextTags, LAMBDA e : text_matches(e, StatusWords))

search_failed_record(msg, cnr) ==
    [status |-> "search_failed", message |-> Msg("Search failed: {}", msg),
     cnr |-> cnr, new_scraper |-> TRUE]

case_found_record(case_info, status_indicators, cnr) ==
    [status |-> "case_found",
     message |-> Msg("Case information retrieved successfully", <<>>),
     cnr |-> cnr, case_details |-> case_info,
     status_indicators |-> Take(status_indicators, 5),
     real_case_data |-> TRUE, new_scraper |-> TRUE]

no_case_data_record(soup, cnr) ==
    [status |-> "no_case_data",
     message |-> Msg("Connected successfully but no case information found", <<>>),
     cnr |-> cnr, page_content_sample |-> Take(get_text(soup, FALSE), 500),
     new_scraper |-> TRUE]

\* the unexpected_response record with the connection fields of the
\* captcha_required record
unexpected_response_record_connected(cnr) ==
    [status |-> "unexpected_response",
     message |-> Msg("Received unexpected response from eCourts", <<>>),
     cnr |-> cnr, connection |-> "success", website_accessible |-> TRUE,
     new_scraper |-> TRUE]

unexpected_response_record(cnr) ==
    [status |-> "unexpected_response",
     message |-> Msg("Received unexpected response from eCourts", <<>>),
     cnr |-> cnr, new_scraper |-> TRUE]

\* _parse_search_results with the case-data test placed before the
\* error-message test
_parse_search_results_case_first(html_content, cnr) ==
    LET soup              == decompose(BeautifulSoup(html_content), {"script", "style"})
        clean_error_msgs  == clean_texts(error_elements(soup))
        case_info         == collect_case_info(table_rows(soup), <<>>)
        status_indicators == clean_texts(status_elements(soup))
        page_text         == lower(get_text(soup, FALSE))
    IN  IF DOMAIN case_info # {} \/ status_indicators # <<>>
          THEN case_found_record(case_info, status_indicators, cnr)
        ELSE IF clean_error_msgs # <<>>
          THEN search_failed_record(clean_error_msgs[1], cnr)
        ELSE IF In(<<"c","a","s","e">>, page_text) \/ In(<<"c","o","u","r","t">>, page_text)
          THEN no_case_data_record(soup, cnr)
        ELSE unexpected_response_record(cnr)

\* _parse_search_results reporting the last clean error message
_parse_search_results_last_message(html_content, cnr) ==
    LET soup              == decompose(BeautifulSoup(html_content), {"script", "style"})
        clean_error_msgs  == clean_texts(error_elements(soup))
        case_info         == collect_case_info(table_rows(soup), <<>>)
        status_indicators == clean_texts(status_elements(soup))
        page_text         == lower(get_text(soup, FALSE))
    IN  IF clean_error_msgs # <<>>
          THEN search_failed_record(clean_error_msgs[Len(clean_error_msgs)], cnr)
        ELSE IF DOMAIN case_info # {} \/ status_indicators # <<>>
          THEN case_found_record(case_info, status_indicators, cnr)
        ELSE IF In(<<"c","a","s","e">>, page_text) \/ In(<<"c","o","u","r","t">>, page_text)
          THEN no_case_data_record(soup, cnr)
        ELSE unexpected_response_record(cnr)

\* lines 157-255
_parse_search_results(html_content, cnr) ==
    LET soup              == decompose(BeautifulSoup(html_content), {"script", "style"})
        clean_error_msgs  == clean_texts(error_elements(soup))
        case_info         == collect_case_info(table_rows(soup), <<>>)
        status_indicators == clean_texts(status_elements(soup))
        page_text         == lower(get_text(soup, FALSE))
    IN  IF clean_error_msgs # <<>>
          THEN search_failed_record(clean_error_msgs[1], cnr)
        ELSE IF DOMAIN case_info # {} \/ status_indicators # <<>>
          THEN case_found_record(case_info, status_indicators, cnr)
        ELSE IF In(<<"c","a","s","e">>, page_text) \/ In(<<"c","o","u","r","t">>, page_text)
          THEN no_case_data_record(soup, cnr)
        ELSE unexpected_response_record(cnr)


(***************************************************************************)
(* Python values                                                           *)
(***************************************************************************)
\* an optional value: None is the empty sequence, a value v is <<v>>
None == <<>>

Some(v) == <<v>>

\* truth value of an optional string: None and '' are false
\* a JSON value that is no string: a number is the tag followed by its
\* digits, an array the tag followed by its items; a string is a sequence
\* of characters and never starts with a tag
JsonTags == {"#number", "#array"}

JsonNumber(digits) == <<"#number">> \o digits

JsonArray(items) == <<"#array">> \o items

isinstance_str(v) == v = <<>> \/ v[1] \notin JsonTags

\* truth value of an optional value: None, '', 0 and [] are false
truthy(x) ==
    /\ x # None
    /\ CASE ~isinstance_str(x[1]) /\ x[1][1] = "#number" ->
               \E i \in 2..Len(x[1]) : x[1][i] # "0"
         [] ~isinstance_str(x[1]) /\ x[1][1] = "#array" -> Len(x[1]) > 1
         [] OTHER -> x[1] # <<>>

\* a raised exception, as opposed to a returned value
Raise(e) == [raised |-> e]

IsRaised(x) == "raised" \in DOMAIN x

\* the result slot of a call that has not returned
NoResult == [status |-> "none"]

\* dict.get(key, default)
dict_get(d, key, default) == IF key \in DOMAIN d THEN d[key] ELSE default

\* a search without its except clause: the exception reaches the caller
except_nothing(x) == x

\* the  except Exception as e: return {"status": "error", "message": str(e), ...}
\* handler that closes search_by_cnr, _submit_cnr_search, _parse_search_results
\* and search_by_case_details
error_record(message) ==
    [status |-> "error", message |-> message, new_scraper |-> TRUE]

except_Exception(x) ==
    IF IsRaised(x) THEN error_record(Msg("{}", <<x.raised>>)) ELSE x

(***************************************************************************)
(* ECourtsScraper.search_by_cnr and _submit_cnr_search                     *)
(***************************************************************************)
services_url == "https://services.ecourts.gov.in"

\* urllib.parse.urljoin(base, url): url resolved against base
urljoin(base, url) == [base |-> base, ref |-> url]

\* Tag.find(name, {attr: value}): the first match, or None
find_attr(soup, name, attr, value) ==
    Take(find_all(soup, {name}, LAMBDA e : has_attr(e, attr) /\ e.attrs[attr] = value), 1)

\* Tag.find(name, {attr: lambda x: x and 'captcha' in x.lower()})
find_captcha_img(soup, attr) ==
    Take(find_all(soup, {"img"},
             LAMBDA e : has_attr(e, attr) /\ e.attrs[attr] # <<>>
                        /\ In(<<"c","a","p","t","c","h","a">>, lower(e.attrs[attr]))), 1)

\* lines 119-131: the submitted field map; the hidden inputs are written
\* after the two search fields, in document order
RECURSIVE add_hidden_inputs(_, _)
add_hidden_inputs(hidden_inputs, form_data) ==
    IF hidden_inputs = <<>> THEN form_data
    ELSE LET hidden == Head(hidden_inputs)
             name   == get(hidden, "name", <<>>)
             value  == get(hidden, "value", <<>>)
         IN  add_hidden_inputs(Tail(hidden_inputs),
                 IF name # <<>> THEN (name :> value) @@ form_data ELSE form_data)

build_form_data(cnr, captcha_code, form) ==
    add_hidden_inputs(
        find_all(form, {"input"},
                 LAMBDA e : has_attr(e, "type") /\ e.attrs["type"] = <<"h","i","d","d","e","n">>),
        (<<"c","i","n","o">> :> cnr) @@ (<<"f","c","a","p","t","c","h","a","_","c","o","d","e">> :> captcha_code))

\* lines 115-139: the request _submit_cnr_search sends
submit_request(cnr, captcha_code, form) ==
    LET form_action == get(form, "action", <<>>)
        form_method == upper(get(form, "method", <<"P","O","S","T">>))
    IN  [method |-> IF form_method = <<"P","O","S","T">> THEN "POST" ELSE "GET",
         url    |-> urljoin(services_url, form_action),
         data   |-> build_form_data(cnr, captcha_code, form),
         sent_as |-> IF form_method = <<"P","O","S","T">> THEN "data" ELSE "params",
         timeout |-> 15]

\* lines 141-155: what _submit_cnr_search does with the outcome of its request
_submit_cnr_search(cnr, response) ==
    except_Exception(
        IF "exc" \in DOMAIN response THEN Raise(response.exc)
        ELSE IF response.status_code = 200
          THEN _parse_search_results(response.content, cnr)
        ELSE error_record(Msg("Search submission failed: HTTP {}",
                              <<ToString(response.status_code)>>)))

captcha_required_record(cnr, date, captcha_url) ==
    [status |-> "captcha_required", cnr |-> cnr, date |-> date,
     connection |-> "success", website_accessible |-> TRUE,
     search_form_found |-> TRUE, captcha_required |-> TRUE,
     captcha_url |-> captcha_url,
     message |-> Msg("CNR search form found - captcha required", <<>>),
     new_scraper |-> TRUE]

\* line 56 (and 265): the GET succeeded
fetch_ok(response) == response.status_code = 200

\* the test of line 65 without the verification input
form_found_without_captcha_input(cnr_input, captcha_input, search_form) ==
    cnr_input # None /\ search_form # None

\* line 65: the search form counts as found
form_found(cnr_input, captcha_input, search_form) ==
    cnr_input # None /\ captcha_input # None /\ search_form # None

\* the test of line 78 as  captcha_code is not None
captcha_supplied_not_None(captcha_code) == captcha_code # None

\* line 78: a captcha code was provided
captcha_supplied(captcha_code) == truthy(captcha_code)

\* search_form_step with the two image strategies in the other order
search_form_step_src_first(cnr, date, captcha_code, content) ==
    LET soup          == BeautifulSoup(content)
        cnr_input     == find_attr(soup, "input", "name", <<"c","i","n","o">>)
        captcha_input == find_attr(soup, "input", "name", <<"f","c","a","p","t","c","h","a","_","c","o","d","e">>)
        search_form   == Take(find_all(soup, {"form"}, LAMBDA e : TRUE), 1)
        src_img       == find_captcha_img(soup, "src")
        captcha_img   == IF src_img = None THEN find_captcha_img(soup, "alt")
                         ELSE src_img
        captcha_url   == IF captcha_img # None
                           THEN Some(urljoin(services_url,
                                             get(captcha_img[1], "src", <<>>)))
                         ELSE None
    IN  IF form_found(cnr_input, captcha_input, search_form)
          THEN IF captcha_supplied(captcha_code)
                 THEN [submit |-> submit_request(cnr, captcha_code[1], search_form[1])]
               ELSE [ret |-> captcha_required_record(cnr, date, captcha_url)]
        ELSE [ret |-> error_record(
                 Msg("CNR search form not found on services page", <<>>))]

\* lines 58-98: what search_by_cnr does with the page it fetched: it returns
\* a record ([ret |-> record]) or goes on to submit ([submit |-> request])
search_form_step(cnr, date, captcha_code, content) ==
    LET soup          == BeautifulSoup(content)
        cnr_input     == find_attr(soup, "input", "name", <<"c","i","n","o">>)
        captcha_input == find_attr(soup, "input", "name", <<"f","c","a","p","t","c","h","a","_","c","o","d","e">>)
        search_form   == Take(find_all(soup, {"form"}, LAMBDA e : TRUE), 1)
        alt_img       == find_captcha_img(soup, "alt")
        captcha_img   == IF alt_img = None THEN find_captcha_img(soup, "src")
                         ELSE alt_img
        captcha_url   == IF captcha_img # None
                           THEN Some(urljoin(services_url,
                                             get(captcha_img[1], "src", <<>>)))
                         ELSE None
    IN  IF form_found(cnr_input, captcha_input, search_form)
          THEN IF captcha_supplied(captcha_code)
                 THEN [submit |-> submit_request(cnr, captcha_code[1], search_form[1])]
               ELSE [ret |-> captcha_required_record(cnr, date, captcha_url)]
        ELSE [ret |-> error_record(
                 Msg("CNR search form not found on services page", <<>>))]

\* search_by_cnr without the status test of line 56
search_by_cnr_any_status(cnr, date, captcha_code, response) ==
    IF "exc" \in DOMAIN response
      THEN [ret |-> except_Exception(Raise(response.exc))]
    ELSE search_form_step(cnr, date, captcha_code, response.content)

\* lines 50-108: what search_by_cnr does with the outcome of its GET
search_by_cnr(cnr, date, captcha_code, response) ==
    IF "exc" \in DOMAIN response
      THEN [ret |-> except_Exception(Raise(response.exc))]
    ELSE IF fetch_ok(response)
      THEN search_form_step(cnr, date, captcha_code, response.content)
    ELSE [ret |-> error_record(Msg("Services website returned status code: {}",
                                   <<ToString(response.status_code)>>))]

(***************************************************************************)
(* ECourtsScraper.search_by_case_details and get_case_listing              *)
(***************************************************************************)
\* search_by_case_details handing a 200 page to the result classifier
search_by_case_details_classifying(case_type, case_number, case_year, date, response) ==
    except_Exception(
        IF "exc" \in DOMAIN response THEN Raise(response.exc)
        ELSE IF fetch_ok(response)
          THEN _parse_search_results(response.content, case_number)
        ELSE error_record(Msg("Website returned status code: {}",
                              <<ToString(response.status_code)>>)))

\* lines 263-289: what search_by_case_details does with the outcome of its GET
search_by_case_details(case_type, case_number, case_year, date, response) ==
    except_Exception(
        IF "exc" \in DOMAIN response THEN Raise(response.exc)
        ELSE IF fetch_ok(response)
          THEN LET soup  == BeautifulSoup(response.content)
                   title == Take(find_all(soup, {"title"}, LAMBDA e : TRUE), 1)
               IN  [status |-> "found", case_type |-> case_type,
                    case_number |-> case_number, case_year |-> case_year,
                    date |-> date, connection |-> "success",
                    website_accessible |-> TRUE,
                    page_title |-> IF title # None
                                     THEN strip(get_text(title[1], FALSE))
                                   ELSE <<"e","C","o","u","r","t","s"," ","S","e","r","v","i","c","e","s">>,
                    new_scraper |-> TRUE]
        ELSE error_record(Msg("Website returned status code: {}",
                              <<ToString(response.status_code)>>)))

\* the  except Exception  handler of get_case_listing
listing_except_Exception(x) ==
    IF IsRaised(x)
      THEN [status |-> "error", message |-> Msg("{}", <<x.raised>>),
            real_data |-> TRUE, new_scraper_response |-> TRUE]
    ELSE x

\* None has no .get: calling it raises AttributeError
PyNone == [py_none |-> TRUE]

\* get_case_listing with the website_accessible test placed before the
\* captcha_required test
get_case_listing_accessible_first(search_params, target_date) ==
    listing_except_Exception(
        IF "py_none" \in DOMAIN search_params THEN Raise("AttributeError")
        ELSE IF dict_get(search_params, "connection", "") = "success"
                /\ dict_get(search_params, "website_accessible", FALSE)
          THEN [status |-> "connected",
                message |-> Msg("Successfully connected to eCourts website", <<>>),
                date |-> target_date,
                website_status |-> "Connected to eCourts",
                page_title |-> dict_get(search_params, "page_title", <<"e","C","o","u","r","t","s"," ","S","e","r","v","i","c","e","s">>),
                real_data |-> TRUE, new_scraper_response |-> TRUE,
                case_details |-> search_params]
        ELSE IF dict_get(search_params, "connection", "") = "success"
                /\ dict_get(search_params, "captcha_required", FALSE)
          THEN [status |-> "captcha_required",
                message |-> Msg("eCourts search form found but requires captcha verification", <<>>),
                date |-> target_date,
                website_status |-> "Connected to eCourts Services",
                captcha_status |-> "Captcha verification required",
                real_data |-> TRUE, new_scraper_response |-> TRUE,
                case_details |-> search_params]
        ELSE [status |-> "connection_failed",
              message |-> Msg("Failed to connect to eCourts", <<>>),
              date |-> target_date,
              real_data |-> TRUE, new_scraper_response |-> TRUE])

\* get_case_listing whose captcha_required record also reports a page title
get_case_listing_titled_captcha(search_params, target_date) ==
    listing_except_Exception(
        IF "py_none" \in DOMAIN search_params THEN Raise("AttributeError")
        ELSE IF dict_get(search_params, "connection", "") = "success"
                /\ dict_get(search_params, "captcha_required", FALSE)
          THEN [status |-> "captcha_required",
                message |-> Msg("eCourts search form found but requires captcha verification", <<>>),
                date |-> target_date,
                website_status |-> "Connected to eCourts Services",
                captcha_status |-> "Captcha verification required",
                page_title |-> dict_get(search_params, "page_title", <<"e","C","o","u","r","t","s"," ","S","e","r","v","i","c","e","s">>),
                real_data |-> TRUE, new_scraper_response |-> TRUE,
                case_details |-> search_params]
        ELSE IF dict_get(search_params, "connection", "") = "success"
                /\ dict_get(search_params, "website_accessible", FALSE)
          THEN [status |-> "connected",
                message |-> Msg("Successfully connected to eCourts website", <<>>),
                date |-> target_date,
                website_status |-> "Connected to eCourts",
                page_title |-> dict_get(search_params, "page_title", <<"e","C","o","u","r","t","s"," ","S","e","r","v","i","c","e","s">>),
                real_data |-> TRUE, new_scraper_response |-> TRUE,
                case_details |-> search_params]
        ELSE [status |-> "connection_failed",
              message |-> Msg("Failed to connect to eCourts", <<>>),
              date |-> target_date,
              real_data |-> TRUE, new_scraper_response |-> TRUE])

\* lines 291-339
get_case_listing(search_params, target_date) ==
    listing_except_Exception(
        IF "py_none" \in DOMAIN search_params THEN Raise("AttributeError")
        ELSE IF dict_get(search_params, "connection", "") = "success"
                /\ dict_get(search_params, "captcha_required", FALSE)
          THEN [status |-> "captcha_required",
                message |-> Msg("eCourts search form found but requires captcha verification", <<>>),
                date |-> target_date,
                website_status |-> "Connected to eCourts Services",
                captcha_status |-> "Captcha verification required",
                real_data |-> TRUE, new_scraper_response |-> TRUE,
                case_details |-> search_params]
        ELSE IF dict_get(search_params, "connection", "") = "success"
                /\ dict_get(search_params, "website_accessible", FALSE)
          THEN [status |-> "connected",
                message |-> Msg("Successfully connected to eCourts website", <<>>),
                date |-> target_date,
                website_status |-> "Connected to eCourts",
                page_title |-> dict_get(search_params, "page_title", <<"e","C","o","u","r","t","s"," ","S","e","r","v","i","c","e","s">>),
                real_data |-> TRUE, new_scraper_response |-> TRUE,
                case_details |-> search_params]
        ELSE [status |-> "connection_failed",
              message |-> Msg("Failed to connect to eCourts", <<>>),
              date |-> target_date,
              real_data |-> TRUE, new_scraper_response |-> TRUE])

(***************************************************************************)
(* utils.py: validation                                                    *)
(***************************************************************************)
\* validate_cnr comparing the demo CNR as written, without .upper()
validate_cnr_as_written(cnr) ==
    IF truthy(cnr) /\ ~isinstance_str(cnr[1]) THEN Raise("AttributeError")
    ELSE IF truthy(cnr) /\ cnr[1] = <<"D","E","M","O","1","2","3">> THEN [value |-> TRUE]
    ELSE IF ~truthy(cnr) \/ Len(cnr[1]) < 10 THEN [value |-> FALSE]
    ELSE [value |-> TRUE]

\* validate_cnr, on an optional value: [value |-> the boolean returned], or
\* the exception raised by .upper() on a value that is no string
validate_cnr(cnr) ==
    IF truthy(cnr) /\ ~isinstance_str(cnr[1]) THEN Raise("AttributeError")
    ELSE IF truthy(cnr) /\ upper(cnr[1]) = <<"D","E","M","O","1","2","3">> THEN [value |-> TRUE]
    ELSE IF ~truthy(cnr) \/ Len(cnr[1]) < 10 THEN [value |-> FALSE]
    ELSE [value |-> TRUE]

Digits == <<"0", "1", "2", "3", "4", "5", "6", "7", "8", "9">>

IsDigit(c) == \E d \in 1..10 : Digits[d] = c

DigitValue(c) == (CHOOSE d \in 1..10 : Digits[d] = c) - 1

RECURSIVE DecimalValue(_)
DecimalValue(s) ==
    IF s = <<>> THEN 0
    ELSE 10 * DecimalValue(SubSeq(s, 1, Len(s) - 1)) + DigitValue(s[Len(s)])

\* int(s): of a number, the number; of an array, TypeError; of a string,
\* the value of its decimal digits, with surrounding whitespace, one sign and
\* single underscores between digits accepted, and ValueError for the rest
int(s) ==
    IF ~isinstance_str(s)
      THEN IF s[1] = "#number" THEN [value |-> DecimalValue(Tail(s))]
           ELSE Raise("TypeError")
    ELSE
    LET t      == strip(s)
        body   == IF t # <<>> /\ t[1] \in {"+", "-"} THEN Tail(t) ELSE t
        digits == SelectSeq(body, LAMBDA c : c # "_")
    IN  IF /\ body # <<>>
           /\ \A i \in 1..Len(body) : IsDigit(body[i]) \/ body[i] = "_"
           /\ body[1] # "_" /\ body[Len(body)] # "_"
           /\ \A i \in 1..(Len(body) - 1) : ~(body[i] = "_" /\ body[i + 1] = "_")
          THEN [value |-> IF t[1] = "-" THEN 0 - DecimalValue(digits)
                          ELSE DecimalValue(digits)]
        ELSE Raise("ValueError")

\* datetime.now().year
current_year == 2026

\* validate_case_details without the test against the current year
validate_case_details_no_upper_bound(case_type, case_number, case_year) ==
    IF ~(truthy(case_type) /\ truthy(case_number) /\ truthy(case_year))
      THEN [value |-> FALSE]
    ELSE LET year == int(case_year[1])
         IN  IF IsRaised(year)
               THEN IF year.raised = "ValueError" THEN [value |-> FALSE] ELSE year
             ELSE [value |-> ~(year.value < 1950)]

\* validate_case_details, on optional values: [value |-> the boolean
\* returned], or the exception of int() that  except ValueError  lets pass
validate_case_details(case_type, case_number, case_year) ==
    IF ~(truthy(case_type) /\ truthy(case_number) /\ truthy(case_year))
      THEN [value |-> FALSE]
    ELSE LET year == int(case_year[1])
         IN  IF IsRaised(year)
               THEN IF year.raised = "ValueError" THEN [value |-> FALSE] ELSE year
             ELSE [value |-> ~(year.value < 1950 \/ year.value > current_year)]


(***************************************************************************)
(* api.py and cli.py: the callers of the scraper                           *)
(***************************************************************************)
Today == "06-11-2026"

Tomorrow == "07-11-2026"

\* format_date(datetime.now()) or format_date(datetime.now() + timedelta(days=1))
target_date_of(date_option) == IF date_option = "tomorrow" THEN Tomorrow ELSE Today

\* what a caller answers: the HTTP status (0 for the CLI), the record it
\* returns or displays, the record it saves (NoResult if none) and the
\* lines the CLI prints
Answer(code, data, saved, echo) ==
    [code |-> code, data |-> data, saved |-> saved, echo |-> echo]

demo_case_details ==
    [case_number |-> <<"D","E","M","O","/","1","2","3","/","2","0","2","4">>, court_name |-> <<"D","e","m","o"," ","D","i","s","t","r","i","c","t"," ","C","o","u","r","t">>,
     case_type |-> <<"C","i","v","i","l"," ","S","u","i","t">>, filing_date |-> <<"1","5","-","0","1","-","2","0","2","4">>,
     status |-> <<"P","e","n","d","i","n","g">>, next_hearing |-> <<"2","5","-","1","0","-","2","0","2","5">>,
     judge |-> <<"H","o","n","'","b","l","e"," ","J","u","s","t","i","c","e"," ","D","e","m","o">>, petitioner |-> <<"D","e","m","o"," ","P","e","t","i","t","i","o","n","e","r">>,
     respondent |-> <<"D","e","m","o"," ","R","e","s","p","o","n","d","e","n","t">>]

demo_result(cnr) ==
    [status |-> "case_found",
     message |-> Msg("Demo case information retrieved successfully", <<>>),
     cnr |-> cnr, case_details |-> demo_case_details,
     status_indicators |-> <<<<"C","a","s","e"," ","i","s"," ","l","i","s","t","e","d"," ","f","o","r"," ","h","e","a","r","i","n","g">>, <<"D","o","c","u","m","e","n","t","s"," ","f","i","l","e","d">>,
                             <<"N","o","t","i","c","e"," ","s","e","r","v","e","d">>>>,
     real_case_data |-> TRUE, demo_mode |-> TRUE]

\* api.search_by_cnr, lines 59-118: the answer given before any call of the
\* scraper, or [call |-> TRUE] when scraper.search_by_cnr is called
api_cnr_before(q) ==
    IF ~truthy(q.cnr)
      THEN [answer |-> Answer(400, [error |-> "CNR is required"], NoResult, <<>>)]
    ELSE IF IsRaised(validate_cnr(q.cnr))
      THEN [answer |-> Answer(500, [error |-> validate_cnr(q.cnr).raised],
                              NoResult, <<>>)]
    ELSE IF ~validate_cnr(q.cnr).value
      THEN [answer |-> Answer(400, [error |-> "Invalid CNR format"], NoResult, <<>>)]
    ELSE IF upper(q.cnr[1]) = <<"D","E","M","O","1","2","3">>
      THEN LET demo == demo_result(q.cnr[1]) @@ [new_scraper |-> TRUE]
           IN  [answer |-> Answer(200, demo, demo, <<>>)]
    ELSE [call |-> TRUE]

\* api.search_by_cnr, lines 120-164: the answer once the scraper returned
api_cnr_after(result, target_date) ==
    IF IsRaised(result)
      THEN Answer(500, [error |-> result.raised], NoResult, <<>>)
    ELSE IF result.status = "error"
      THEN Answer(500, result, NoResult, <<>>)
    ELSE IF result.status = "captcha_required"
      THEN Answer(200, result, NoResult, <<>>)
    ELSE IF result.status \in {"case_found", "no_case_data", "search_failed"}
      THEN Answer(200, result, result, <<>>)
    ELSE LET listing == get_case_listing(result, target_date)
         IN  Answer(200, listing, listing, <<>>)

\* api.search_by_case_details, lines 170-189
api_case_before(q) ==
    IF IsRaised(validate_case_details(q.case_type, q.case_number, q.case_year))
      THEN [answer |-> Answer(500,
               [error |-> validate_case_details(q.case_type, q.case_number,
                                                q.case_year).raised],
               NoResult, <<>>)]
    ELSE IF ~validate_case_details(q.case_type, q.case_number, q.case_year).value
      THEN [answer |-> Answer(400, [error |-> "Invalid case details"], NoResult, <<>>)]
    ELSE [call |-> TRUE]

\* api.search_by_case_details, lines 191-211
api_case_after(result, target_date) ==
    IF IsRaised(result)
      THEN Answer(500, [error |-> result.raised], NoResult, <<>>)
    ELSE IF result.status = "error"
      THEN Answer(500, result, NoResult, <<>>)
    ELSE Answer(200, get_case_listing(result, target_date), NoResult, <<>>)

\* cli.main, lines 61-114, on a CNR
cli_cnr_before(q) ==
    IF IsRaised(validate_cnr(q.cnr))
      THEN [answer |-> Answer(0, [error |-> validate_cnr(q.cnr).raised], NoResult,
                              <<"Error: {e}">>)]
    ELSE IF ~validate_cnr(q.cnr).value
      THEN [answer |-> Answer(0, NoResult, NoResult, <<"Error: Invalid CNR format">>)]
    ELSE IF upper(q.cnr[1]) = <<"D","E","M","O","1","2","3">>
      THEN [answer |-> Answer(0, demo_result(q.cnr[1]), demo_result(q.cnr[1]),
                              <<"Case Information Found!", "CNR: {cnr}",
                                "Message: {message}">>)]
    ELSE [call |-> TRUE]

\* the listing transcript of cli.main, lines 161-170 and 186-194
cli_listing_echo(listing) ==
    IF listing.status = "connected"
      THEN <<"eCourts Connection Successful", "Status: {website_status}",
             "Message: {message}">>
    ELSE <<"Connection Failed", "Message: {message}">>

\* cli.main, lines 116-175 and 249-250
cli_cnr_after(result, target_date) ==
    IF IsRaised(result)
      THEN Answer(0, [error |-> result.raised], NoResult, <<"Error: {e}">>)
    ELSE IF result.status = "captcha_required"
      THEN Answer(0, result, NoResult, <<"Captcha Required">>)
    ELSE IF result.status = "case_found"
      THEN Answer(0, result, result,
                  <<"Case Information Found!", "CNR: {cnr}", "Message: {message}">>)
    ELSE IF result.status = "no_case_data"
      THEN Answer(0, result, result,
                  <<"No Case Data Found", "CNR: {cnr}", "Message: {message}">>)
    ELSE IF result.status = "search_failed"
      THEN Answer(0, result, result,
                  <<"Search Failed", "CNR: {cnr}", "Error: {message}">>)
    ELSE LET listing == get_case_listing(result, target_date)
         IN  Answer(0, listing, listing, cli_listing_echo(listing))

\* cli.main, lines 178-183
cli_case_before(q) ==
    IF IsRaised(validate_case_details(q.case_type, q.case_number, q.case_year))
      THEN [answer |-> Answer(0,
               [error |-> validate_case_details(q.case_type, q.case_number,
                                                q.case_year).raised],
               NoResult, <<"Error: {e}">>)]
    ELSE IF ~validate_case_details(q.case_type, q.case_number, q.case_year).value
      THEN [answer |-> Answer(0, NoResult, NoResult, <<"Error: Invalid case details">>)]
    ELSE [call |-> TRUE]

\* cli.main, lines 184-199 and 249-250
cli_case_after(result, target_date) ==
    IF IsRaised(result)
      THEN Answer(0, [error |-> result.raised], NoResult, <<"Error: {e}">>)
    ELSE LET listing == get_case_listing(result, target_date)
         IN  Answer(0, listing, listing, cli_listing_echo(listing))

before_call(q) ==
    CASE q.client = "api" /\ q.op = "cnr"  -> api_cnr_before(q)
      [] q.client = "api" /\ q.op = "case" -> api_case_before(q)
      [] q.client = "cli" /\ q.op = "cnr"  -> cli_cnr_before(q)
      [] q.client = "cli" /\ q.op = "case" -> cli_case_before(q)

after_call(q, result) ==
    CASE q.client = "api" /\ q.op = "cnr"  -> api_cnr_after(result, target_date_of(q.date))
      [] q.client = "api" /\ q.op = "case" -> api_case_after(result, target_date_of(q.date))
      [] q.client = "cli" /\ q.op = "cnr"  -> cli_cnr_after(result, target_date_of(q.date))
      [] q.client = "cli" /\ q.op = "case" -> cli_case_after(result, target_date_of(q.date))


(***************************************************************************)
(* The requests the callers receive and the pages the portal serves        *)
(***************************************************************************)
\* the number of requests (API requests or CLI runs) in one behaviour
NumReq == 2

\* the largest number of extra inputs of a search form handed to
\* _submit_cnr_search directly
MaxHidden == 2

Req == 1..NumReq

ValidCnr == <<"D","L","C","T","0","1","0","0","0","1">>

CnrRequest(client, cnr, captcha_code, date) ==
    [client |-> client, op |-> "cnr", cnr |-> cnr, captcha_code |-> captcha_code,
     date |-> date, case_type |-> None, case_number |-> None, case_year |-> None]

CaseRequest(client, case_type, case_number, case_year) ==
    [client |-> client, op |-> "case", cnr |-> None, captcha_code |-> None,
     date |-> "today", case_type |-> case_type, case_number |-> case_number,
     case_year |-> case_year]

\* POST /search/cnr bodies, POST /search/case bodies and CLI command lines;
\* the CLI always searches with captcha_code None (cli.py line 113) and
\* takes the CNR branch only for a non-empty CNR (line 61)
Requests ==
    {CnrRequest("api", cnr, None, "today") :
        cnr \in {None, Some(<<"S","H","O","R","T">>), Some(<<"D","E","M","O","1","2","3">>), Some(<<"d","e","m","o","1","2","3">>)}}
    \cup {CnrRequest("api", Some(ValidCnr), code, "today") :
        code \in {None, Some(<<>>), Some(<<"k","7">>)}}
    \cup {CnrRequest("api", Some(ValidCnr), None, "tomorrow")}
    \cup {CnrRequest("cli", Some(cnr), None, "today") :
        cnr \in {<<"S","H","O","R","T">>, <<"D","E","M","O","1","2","3">>, <<"d","E","m","o","1","2","3">>, ValidCnr}}
    \cup {CaseRequest("api", Some(<<"C","R","L">>), Some(<<"1","2">>), year) :
        year \in {Some(<<"2","0","2","3">>), Some(<<"1","9","4","9">>), Some(<<"2","0","x","3">>), None}}
    \cup {CnrRequest("api", Some(cnr), None, "today") :
        cnr \in {JsonNumber(<<"1","2","3","4","5","6","7","8","9","0","1">>), JsonArray(<<"x">>), JsonNumber(<<"0">>)}}
    \cup {CaseRequest("api", Some(<<"C","R","L">>), Some(<<"1","2">>), Some(year)) :
        year \in {JsonArray(<<"2023">>), JsonNumber(<<"1","9","4","9">>)}}
    \cup {CaseRequest("api", None, Some(<<"1","2">>), Some(<<"2","0","2","3">>)),
          CaseRequest("cli", Some(<<"C","R","L">>), Some(<<"1","2">>), Some(<<"2","0","x","3">>))}
    \cup {CaseRequest("cli", Some(<<"C","R","L">>), Some(<<"1","2">>), year) :
        year \in {Some(<<"2","0","2","3">>), Some(<<"2","0","2","7">>)}}

CinoInput == El("input", [name |-> <<"c","i","n","o">>, type |-> <<"t","e","x","t">>], <<>>)

CaptchaInput == El("input", [name |-> <<"f","c","a","p","t","c","h","a","_","c","o","d","e">>], <<>>)

\* inputs a form may carry besides the two search fields
ExtraInputs ==
    {El("input", [type |-> <<"h","i","d","d","e","n">>, name |-> <<"t","k">>, value |-> <<"a">>], <<>>),
     El("input", [type |-> <<"h","i","d","d","e","n">>, name |-> <<"t","k">>, value |-> <<"b">>], <<>>),
     El("input", [type |-> <<"h","i","d","d","e","n">>, name |-> <<"c","i","n","o">>, value |-> <<"X">>], <<>>),
     El("input", [type |-> <<"h","i","d","d","e","n">>, name |-> <<"f","c","a","p","t","c","h","a","_","c","o","d","e">>, value |-> <<"Y">>], <<>>),
     El("input", [type |-> <<"h","i","d","d","e","n">>, value |-> <<"v">>], <<>>),
     El("input", [type |-> <<"h","i","d","d","e","n">>, name |-> <<"s","i","d">>], <<>>),
     El("input", [type |-> <<"t","e","x","t">>, name |-> <<"q">>, value |-> <<"z">>], <<>>)}

SearchForm(inputs) == El("form", [action |-> <<"/","s">>, method |-> <<"p","o","s","t">>], inputs)

\* pages with each combination of the search-key input, the verification
\* input and the form present or missing
PresencePages ==
    {IF f THEN <<SearchForm((IF c THEN <<CinoInput>> ELSE <<>>)
                            \o (IF k THEN <<CaptchaInput>> ELSE <<>>))>>
     ELSE (IF c THEN <<CinoInput>> ELSE <<>>) \o (IF k THEN <<CaptchaInput>> ELSE <<>>) :
        c \in BOOLEAN, k \in BOOLEAN, f \in BOOLEAN}

\* complete search forms with a hidden input
HiddenPages ==
    {<<SearchForm(<<CinoInput, CaptchaInput, extra>>)>> :
        extra \in {El("input", [type |-> <<"h","i","d","d","e","n">>, name |-> <<"t","k">>, value |-> <<"a">>], <<>>),
                   El("input", [type |-> <<"h","i","d","d","e","n">>, name |-> <<"c","i","n","o">>, value |-> <<"X">>], <<>>)}}

\* complete search forms next to a verification image
ImagePages ==
    {<<SearchForm(<<CinoInput, CaptchaInput>>), img>> :
        img \in {El("img", [alt |-> <<"C","a","p","t","c","h","a">>, src |-> <<"/","a",".","p","n","g">>], <<>>),
                 El("img", [src |-> <<"/","c","a","p","t","c","h","a",".","p","n","g">>], <<>>)}}

TitlePage == <<El("title", NoAttrs, <<Text(<<" ","e","C","o","u","r","t","s"," ">>)>>)>>

Pages == PresencePages \cup HiddenPages \cup ImagePages \cup {TitlePage}

\* the outcomes of the GET of the services page
FetchResponses ==
    {[exc |-> "ConnectionError"], [status_code |-> 503, content |-> <<>>],
     [status_code |-> 503, content |-> <<SearchForm(<<CinoInput, CaptchaInput>>)>>]}
    \cup {[status_code |-> 200, content |-> page] : page \in Pages}

Div(s) == El("div", NoAttrs, <<Text(s)>>)

Table(rows) == El("table", NoAttrs, rows)

Row(cells) == El("tr", NoAttrs, cells)

Cell(tag, s) == El(tag, NoAttrs, <<Text(s)>>)

\* result pages, one or two for each outcome of the classifier
SampleResults ==
    {<<Div(<<"E","r","r","o","r",":"," ","i","n","v","a","l","i","d"," ","C","N","R">>)>>,
     <<Table(<<Row(<<Cell("td", <<"C","a","s","e"," ","S","t","a","t","u","s">>), Cell("td", <<"P","e","n","d","i","n","g">>)>>)>>)>>,
     <<El("h1", NoAttrs, <<Text(<<"D","i","s","t","r","i","c","t"," ","C","o","u","r","t">>)>>)>>,
     <<>>,
     <<Div(<<".","e","r","r","o","r","{","c","o","l","o","r",":","r","e","d","}">>)>>}

\* the outcomes of the form submission
SubmitResponses ==
    {[exc |-> "Timeout"], [status_code |-> 500, content |-> <<>>]}
    \cup {[status_code |-> 200, content |-> doc] : doc \in SampleResults}


(***************************************************************************)
(* State                                                                   *)
(***************************************************************************)
VARIABLES
    pc,       \* pc[r]: "absent", "idle", "fetching" (the scraper's GET is due),
              \* "submitting" (the form submission is due) or "done"
    req,      \* req[r]: the request r, once received
    pending,  \* pending[r]: the submission _submit_cnr_search is about to send
    result,   \* result[r]: what the scraper's search returned to its caller
    answer,   \* answer[r]: what the API or the CLI answered
    calls,    \* calls[r]: the network calls issued for r, in order
    jar,      \* jar[s]: the cookie held by session s: 0 for none, or the
              \* request whose response set it; session 0 belongs to the
              \* module-level scraper of api.py, session r to CLI run r
    fetched,  \* fetched[r]: the outcome of r's GET and the cookie r's
              \* session held when it returned
    fcall,    \* a direct call of one function of the scraper: its name
              \* and arguments
    fret      \* and what it returned

vars ==
    <<pc, req, pending, result, answer, calls, jar, fetched, fcall, fret>>

sys_vars == <<pc, req, pending, result, answer, calls, jar, fetched>>

fun_vars == <<fcall, fret>>

NoRequest == [client |-> "none"]

NoPending == [method |-> "none"]

NoAnswer == [code |-> -1]

NoFetch == [response |-> [exc |-> "none"], cookie |-> 0]

\* api.py line 14: one scraper, hence one requests.Session, for every API
\* request; cli.py line 26: one scraper for each run
session_of(q, r) == IF q.client = "api" THEN 0 ELSE r

SystemInit(clients) ==
    /\ pc = [r \in Req |-> IF r \in clients THEN "idle" ELSE "absent"]
    /\ req = [r \in Req |-> NoRequest]
    /\ pending = [r \in Req |-> NoPending]
    /\ result = [r \in Req |-> NoResult]
    /\ answer = [r \in Req |-> NoAnswer]
    /\ calls = [r \in Req |-> <<>>]
    /\ jar = [s \in 0..NumReq |-> 0]
    /\ fetched = [r \in Req |-> NoFetch]

NoCall == [fn |-> "none"]

FunctionsIdle ==
    /\ fcall = NoCall
    /\ fret = NoResult

Init == SystemInit(Req) /\ FunctionsIdle

InitSingle == SystemInit({1}) /\ FunctionsIdle

(***************************************************************************)
(* Actions                                                                 *)
(***************************************************************************)
\* a request arrives and its handler runs up to the scraper's GET
Request(r) ==
    /\ pc[r] = "idle"
    /\ \E q \in Requests :
          \E b \in {before_call(q)} :
              /\ req' = [req EXCEPT ![r] = q]
              /\ IF "answer" \in DOMAIN b
                   THEN /\ answer' = [answer EXCEPT ![r] = b.answer]
                        /\ pc' = [pc EXCEPT ![r] = "done"]
                 ELSE /\ answer' = answer
                      /\ pc' = [pc EXCEPT ![r] = "fetching"]
    /\ UNCHANGED <<pending, result, calls, jar, fetched, fun_vars>>

\* the session after a call: a response may set a cookie
jar_after(s, r, response, set_cookie) ==
    IF "exc" \notin DOMAIN response /\ set_cookie THEN [jar EXCEPT ![s] = r] ELSE jar

\* self.session.get(self.services_url, timeout=10) returns or raises, and
\* the search runs on to its next network call or to its end
Fetch(r) ==
    /\ pc[r] = "fetching"
    /\ \E response \in FetchResponses, set_cookie \in BOOLEAN :
          LET q == req[r]
              s == session_of(q, r)
          IN  \E step \in {IF q.op = "cnr"
                             THEN search_by_cnr(q.cnr[1], target_date_of(q.date),
                                                q.captcha_code, response)
                           ELSE [ret |-> search_by_case_details(
                                             q.case_type[1], q.case_number[1],
                                             q.case_year[1], target_date_of(q.date),
                                             response)]} :
              /\ calls' = [calls EXCEPT ![r] =
                              Append(@, [kind |-> "fetch", method |-> "GET",
                                         cookie |-> jar[s]])]
              /\ jar' = jar_after(s, r, response, set_cookie)
              /\ fetched' = [fetched EXCEPT ![r] =
                                 [response |-> response, cookie |-> jar'[s]]]
              /\ IF "ret" \in DOMAIN step
                   THEN /\ result' = [result EXCEPT ![r] = step.ret]
                        /\ answer' = [answer EXCEPT ![r] = after_call(q, step.ret)]
                        /\ pc' = [pc EXCEPT ![r] = "done"]
                        /\ pending' = pending
                 ELSE /\ pending' = [pending EXCEPT ![r] = step.submit]
                      /\ pc' = [pc EXCEPT ![r] = "submitting"]
                      /\ UNCHANGED <<result, answer>>
    /\ UNCHANGED <<req, fun_vars>>

\* self.session.post(...) or self.session.get(..., params=...) returns or
\* raises, and the search runs to its end
Submit(r) ==
    /\ pc[r] = "submitting"
    /\ \E response \in SubmitResponses, set_cookie \in BOOLEAN :
          LET q == req[r]
              s == session_of(q, r)
          IN  \E ret \in {_submit_cnr_search(q.cnr[1], response)} :
              /\ calls' = [calls EXCEPT ![r] =
                              Append(@, [kind |-> "submit", method |-> pending[r].method,
                                         cookie |-> jar[s]])]
              /\ jar' = jar_after(s, r, response, set_cookie)
              /\ result' = [result EXCEPT ![r] = ret]
              /\ answer' = [answer EXCEPT ![r] = after_call(q, ret)]
              /\ pc' = [pc EXCEPT ![r] = "done"]
    /\ UNCHANGED <<req, pending, fetched, fun_vars>>

Next == \E r \in Req : Request(r) \/ Fetch(r) \/ Submit(r)

\* the API and the CLI serving NumReq requests, concurrently
Spec == Init /\ [][Next]_vars

\* a single request, served alone
SpecSingle == InitSingle /\ [][Next]_vars


(***************************************************************************)
(* _parse_search_results called directly on the documents of at most       *)
(* MaxNodes top-level nodes                                                *)
(***************************************************************************)
MaxNodes == 2

Phrases ==
    {<<"E","r","r","o","r">>, <<".","e","r","r","o","r","{","}">>, <<"P","e","n","d","i","n","g">>, <<"c","o","l","o","r",":","l","i","s","t","e","d">>, <<"C","a","s","e">>, <<"o","k">>,
     <<" ","N","o","t"," ","F","o","u","n","d"," ">>}

ResultNodes ==
    {Div(t) : t \in Phrases}
    \cup {El("h1", NoAttrs, <<Text(t)>>) : t \in {<<"E","r","r","o","r">>, <<"C","a","s","e">>}}
    \cup {El("style", NoAttrs, <<Text(t)>>) : t \in {<<"E","r","r","o","r">>, <<"C","a","s","e">>}}
    \cup {El("div", NoAttrs, <<Text(<<"E","r","r","o","r">>), El("b", NoAttrs, <<Text(<<"o","k">>)>>)>>),
          El("div", NoAttrs, <<Text(<<"E","r","r","o","r">>), El("style", NoAttrs, <<Text(<<".","e","r","r","o","r","{","}">>)>>)>>),
          El("div", NoAttrs, <<El("span", NoAttrs, <<Text(<<"E","r","r","o","r">>)>>)>>),
          El("div", NoAttrs, <<Comment(<<"e","r","r","o","r">>)>>)}
    \cup {Table(<<Row(<<Cell("td", k), Cell("td", v)>>)>>) :
            k \in {<<"C","a","s","e">>, <<"o","k">>, <<"E","r","r","o","r">>}, v \in {<<"P","e","n","d","i","n","g">>, <<"o","k">>}}
    \cup {Table(<<Row(<<Cell("td", <<"C","a","s","e">>)>>)>>),
          Table(<<Row(<<Cell("th", <<"C","a","s","e">>), Cell("td", <<"o","k">>)>>)>>)}

ResultDocs == UNION {[1..n -> ResultNodes] : n \in 0..MaxNodes}

InitClassify ==
    /\ SystemInit({})
    /\ fcall \in {[fn |-> "_parse_search_results", html_content |-> doc,
                   cnr |-> ValidCnr] : doc \in ResultDocs}
    /\ fret = NoResult

Classify ==
    /\ fcall.fn = "_parse_search_results"
    /\ fret = NoResult
    /\ fret' = _parse_search_results(fcall.html_content, fcall.cnr)
    /\ UNCHANGED <<sys_vars, fcall>>

SpecClassify == InitClassify /\ [][Classify]_vars


(***************************************************************************)
(* _parse_search_results called directly on documents whose texts mix the  *)
(* two keyword sets with each CSS indicator, next to clean messages and to *)
(* script and style elements                                               *)
(***************************************************************************)
ErrorDebris ==
    {<<"e","r","r","o","r","{">>, <<"}","i","n","v","a","l","i","d">>, <<"p","a","d","d","i","n","g",":","0"," ","e","r","r","o","r">>, <<"n","o","t"," ","f","o","u","n","d"," ","m","a","r","g","i","n",":","1">>,
     <<"b","o","r","d","e","r",":"," ","i","n","c","o","r","r","e","c","t">>, <<"c","o","l","o","r",":","r","e","d"," ","e","r","r","o","r">>, <<"f","o","n","t","-","e","r","r","o","r">>}

StatusDebris ==
    {<<"l","i","s","t","e","d","{">>, <<"}","p","e","n","d","i","n","g">>, <<"p","a","d","d","i","n","g",":"," ","d","i","s","p","o","s","e","d">>, <<"m","a","r","g","i","n",":","h","e","a","r","i","n","g">>,
     <<"b","o","r","d","e","r",":","l","i","s","t","e","d">>, <<"c","o","l","o","r",":","p","e","n","d","i","n","g">>, <<"f","o","n","t","-","h","e","a","r","i","n","g">>}

CleanPhrases ==
    {<<"E","r","r","o","r",":"," ","i","n","v","a","l","i","d"," ","C","N","R">>, <<" ","N","o","t"," ","F","o","u","n","d"," ">>, <<"P","e","n","d","i","n","g">>, <<"C","O","L","O","R",":"," ","E","r","r","o","r">>,
     <<"f","o","n","t","-","a",";"," ","c","o","l","o","r",":","b">>}

HiddenNodes ==
    {El("style", NoAttrs, <<Text(<<"c","s","s"," ","e","r","r","o","r">>)>>),
     El("script", NoAttrs, <<Text(<<"j","s"," ","h","e","a","r","i","n","g">>)>>),
     El("div", NoAttrs, <<El("script", NoAttrs, <<Text(<<"j","s","2"," ","i","n","v","a","l","i","d">>)>>)>>)}

DebrisNodes ==
    {Div(t) : t \in ErrorDebris \cup StatusDebris \cup CleanPhrases}
    \cup HiddenNodes
    \cup {Table(<<Row(<<Cell("td", <<"C","a","s","e">>), Cell("td", <<"f","o","n","t","-","h","e","a","r","i","n","g">>)>>)>>)}

DebrisDocs == UNION {[1..n -> DebrisNodes] : n \in 0..MaxNodes}

InitDebris ==
    /\ SystemInit({})
    /\ fcall \in {[fn |-> "_parse_search_results", html_content |-> doc,
                   cnr |-> ValidCnr] : doc \in DebrisDocs}
    /\ fret = NoResult

SpecDebris == InitDebris /\ [][Classify]_vars

(***************************************************************************)
(* validate_case_details called directly on case years given as strings:   *)
(* every string of YearDigits digits, and strings that are no plain number *)
(***************************************************************************)
YearDigits == 4

DigitYears == [1..YearDigits -> {"0", "1", "2", "5", "6", "7", "9"}]

OddYears ==
    {<<>>, <<"0">>, <<"-","2","0","2","3">>, <<"+","2","0","2","3">>, <<" ","2","0","2","3"," ">>, <<"2","0","x","3">>, <<"a","b","c">>, <<"2","0","2","3",".","0">>,
     <<"2","_","0","2","3">>, <<"_","2","0","2","3">>, <<"2","0","_","_","2","3">>, <<"1","e","3">>, <<"9","9","9","9","9">>, <<"1","9","4","9">>, <<"1","9","5","0">>, <<"2","0","2","6">>,
     <<"2","0","2","7">>}

InitValidate ==
    /\ SystemInit({})
    /\ fcall \in
          {[fn |-> "validate_case_details", case_type |-> Some(<<"C","R","L">>),
            case_number |-> Some(<<"1","2">>), case_year |-> Some(y)] : y \in DigitYears}
          \cup {[fn |-> "validate_case_details", case_type |-> t,
                 case_number |-> n, case_year |-> y] :
                  t \in {None, Some(<<>>), Some(<<"C","R","L">>)},
                  n \in {None, Some(<<>>), Some(<<"1","2">>)},
                  y \in {None} \cup {Some(y) : y \in OddYears}}
    /\ fret = NoResult

Validate ==
    /\ fcall.fn = "validate_case_details"
    /\ fret = NoResult
    /\ fret' = validate_case_details(fcall.case_type, fcall.case_number,
                                     fcall.case_year)
    /\ UNCHANGED <<sys_vars, fcall>>

SpecValidate == InitValidate /\ [][Validate]_vars

(***************************************************************************)
(* The request _submit_cnr_search builds, for the search forms with at     *)
(* most MaxHidden inputs besides the two search fields                     *)
(***************************************************************************)
SubmitForms ==
    {SearchForm(<<CinoInput, CaptchaInput>> \o extra) :
        extra \in UNION {[1..n -> ExtraInputs] : n \in 0..MaxHidden}}

\* the method attributes a form may carry, the attribute left out included
FormMethods ==
    {None} \cup {Some(m) : m \in {<<"p","o","s","t">>, <<"P","O","S","T">>, <<"P","o","s","t">>, <<"g","e","t">>, <<"G","E","T">>,
                                   <<"G","e","t">>, <<>>, <<"p","u","t">>}}

\* forms with each method attribute, with and without an action
MethodForms ==
    {El("form", a @@ (IF m # None THEN [method |-> m[1]] ELSE <<>>),
        <<CinoInput, CaptchaInput>>) :
        a \in {<<>>, [action |-> <<"/","s">>]}, m \in FormMethods}

InitSubmit ==
    /\ SystemInit({})
    /\ fcall \in {[fn |-> "_submit_cnr_search", cnr |-> ValidCnr,
                   captcha_code |-> <<"k","7">>, form |-> form] :
                    form \in SubmitForms \cup MethodForms}
    /\ fret = NoResult

BuildSubmission ==
    /\ fcall.fn = "_submit_cnr_search"
    /\ fret = NoResult
    /\ fret' = submit_request(fcall.cnr, fcall.captcha_code, fcall.form)
    /\ UNCHANGED <<sys_vars, fcall>>

SpecSubmit == InitSubmit /\ [][BuildSubmission]_vars

(***************************************************************************)
(* search_by_cnr called directly on pages that carry up to MaxImages       *)
(* images, matched by alt text, by source URL, by both or by neither       *)
(***************************************************************************)
MaxImages == 2

Images ==
    {El("img", [alt |-> <<"C","a","p","t","c","h","a">>, src |-> <<"/","a",".","p","n","g">>], <<>>),
     El("img", [alt |-> <<"E","n","t","e","r"," ","C","A","P","T","C","H","A">>, src |-> <<"/","b",".","p","n","g">>], <<>>),
     El("img", [src |-> <<"/","c","a","p","t","c","h","a",".","p","n","g">>], <<>>),
     El("img", [alt |-> <<"l","o","g","o">>, src |-> <<"/","C","a","p","t","c","h","a","/","i">>], <<>>),
     El("img", [alt |-> <<"l","o","g","o">>, src |-> <<"/","l","o","g","o",".","p","n","g">>], <<>>),
     El("img", [alt |-> <<"c","a","p","t","c","h","a">>], <<>>)}

CaptchaPages ==
    {(IF f THEN <<SearchForm(<<CinoInput, CaptchaInput>>)>> ELSE <<>>) \o imgs :
        f \in BOOLEAN,
        imgs \in UNION {[1..n -> Images] : n \in 0..MaxImages}}

InitCaptchaImage ==
    /\ SystemInit({})
    /\ fcall \in {[fn |-> "search_by_cnr", cnr |-> ValidCnr, date |-> Today,
                   captcha_code |-> code,
                   response |-> [status_code |-> 200, content |-> page]] :
                    code \in {None, Some(<<>>), Some(<<"k","7">>)}, page \in CaptchaPages}
    /\ fret = NoResult

\* the whole of search_by_cnr, the submission it makes with a token included
CaptchaSearch ==
    /\ fcall.fn = "search_by_cnr"
    /\ fret = NoResult
    /\ \E out \in {search_by_cnr(fcall.cnr, fcall.date, fcall.captcha_code,
                                 fcall.response)} :
          IF "ret" \in DOMAIN out
            THEN fret' = out.ret
          ELSE \E response \in {[exc |-> "Timeout"],
                                [status_code |-> 200, content |-> <<>>]} :
                  fret' = _submit_cnr_search(fcall.cnr, response)
    /\ UNCHANGED <<sys_vars, fcall>>

SpecCaptchaImage == InitCaptchaImage /\ [][CaptchaSearch]_vars

(***************************************************************************)
(* get_case_listing called directly: on the records the searches return,   *)
(* on None, and on the dictionaries that hold any of the fields it reads   *)
(***************************************************************************)
ReturnedRecords ==
    {captcha_required_record(ValidCnr, Today, url) :
        url \in {None, Some(urljoin(services_url, <<"/","a",".","p","n","g">>))}}
    \cup {search_by_case_details(<<"C","R","L">>, <<"1","2">>, <<"2","0","2","3">>, Today,
                                 [status_code |-> 200, content |-> page]) :
            page \in {<<>>, TitlePage}}
    \cup {error_record(Msg("CNR search form not found on services page", <<>>))}
    \cup {_parse_search_results(doc, ValidCnr) : doc \in SampleResults}

ProbeDicts ==
    {[status |-> "probe"] @@ c @@ k @@ w @@ t :
        c \in {<<>>, [connection |-> "success"], [connection |-> "failed"]},
        k \in {<<>>, [captcha_required |-> TRUE], [captcha_required |-> FALSE]},
        w \in {<<>>, [website_accessible |-> TRUE], [website_accessible |-> FALSE]},
        t \in {<<>>, [page_title |-> <<"H","o","m","e">>]}}

ListingInputs == {PyNone} \cup ReturnedRecords \cup ProbeDicts

InitListing ==
    /\ SystemInit({})
    /\ fcall \in {[fn |-> "get_case_listing", search_params |-> p, target_date |-> d] :
                    p \in ListingInputs, d \in {Today, Tomorrow}}
    /\ fret = NoResult

Listing ==
    /\ fcall.fn = "get_case_listing"
    /\ fret = NoResult
    /\ fret' = get_case_listing(fcall.search_params, fcall.target_date)
    /\ UNCHANGED <<sys_vars, fcall>>

SpecListing == InitListing /\ [][Listing]_vars


(***************************************************************************)
(* Properties                                                              *)
(***************************************************************************)
Range(f) == {f[i] : i \in DOMAIN f}

\* the elements of a document, and of what the classifier keeps of it
Elements(content) ==
    {n \in Range(descendants(BeautifulSoup(content))) : ~IsString(n)}

Visible(content) == decompose(BeautifulSoup(content), {"script", "style"})

VisibleElements(content) ==
    {n \in Range(descendants(Visible(content))) : ~IsString(n)}

\* an element the keyword search matches and the CSS filter lets through
CleanKeywordElement(e, words) ==
    /\ e.tag \in TextTags
    /\ text_matches(e, words)
    /\ ~looks_like_css(get_text(e, TRUE))

HasCleanError(content) ==
    \E e \in VisibleElements(content) : CleanKeywordElement(e, ErrorWords)

HasStatusIndicator(content) ==
    \E e \in VisibleElements(content) : CleanKeywordElement(e, StatusWords)

HasCaseField(content) ==
    \E t \in VisibleElements(content) :
        /\ t.tag = "table"
        /\ \E row \in Range(descendants(t)) :
              /\ row.tag = "tr"
              /\ LET cells == find_all(row, {"td", "th"}, LAMBDA e : TRUE)
                 IN  /\ Len(cells) >= 2
                     /\ \E keyword \in CaseKeywords :
                           In(keyword, lower(get_text(cells[1], TRUE)))

MentionsCaseOrCourt(content) ==
    LET page_text == lower(get_text(Visible(content), FALSE))
    IN  In(<<"c","a","s","e">>, page_text) \/ In(<<"c","o","u","r","t">>, page_text)

Classified == fcall.fn = "_parse_search_results" /\ fret.status # "none"

\* C1: the classifier returns exactly one of search_failed, case_found,
\* no_case_data and unexpected_response, the first that applies in that
\* order: search_failed when a clean error-keyword element exists, whatever
\* else the document holds; case_found when none exists and there is a case
\* field or a status indicator; no_case_data when neither holds and the
\* visible text mentions "case" or "court"; unexpected_response otherwise.
ClassifierDecisionOrder ==
    Classified =>
        fret.status =
            IF HasCleanError(fcall.html_content) THEN "search_failed"
            ELSE IF HasCaseField(fcall.html_content)
                    \/ HasStatusIndicator(fcall.html_content) THEN "case_found"
            ELSE IF MentionsCaseOrCourt(fcall.html_content) THEN "no_case_data"
            ELSE "unexpected_response"

\* a document with a clean error message next to a case-field row and a
\* status indicator, classified search_failed
SearchFailedDespiteCaseData ==
    /\ Classified
    /\ fret.status = "search_failed"
    /\ HasCaseField(fcall.html_content)
    /\ HasStatusIndicator(fcall.html_content)

HasInputNamed(content, name) ==
    \E e \in Elements(content) :
        e.tag = "input" /\ has_attr(e, "name") /\ e.attrs["name"] = name

HasForm(content) == \E e \in Elements(content) : e.tag = "form"

IssuedSubmit(r) == \E i \in 1..Len(calls[r]) : calls[r][i].kind = "submit"

\* r is a CNR search whose GET returned status 200
CnrFetched(r) ==
    /\ pc[r] \in {"submitting", "done"}
    /\ req[r].op = "cnr"
    /\ calls[r] # <<>>
    /\ "exc" \notin DOMAIN fetched[r].response
    /\ fetched[r].response.status_code = 200

FormComplete(content) ==
    /\ HasInputNamed(content, <<"c","i","n","o">>)
    /\ HasInputNamed(content, <<"f","c","a","p","t","c","h","a","_","c","o","d","e">>)
    /\ HasForm(content)

\* C2: when the fetched page lacks the cino input, the fcaptcha_code input
\* or a form, search_by_cnr returns the error record "CNR search form not
\* found", not captcha_required, and submits nothing, with or without a
\* verification token.
FormNotFoundWhenIncomplete ==
    \A r \in Req :
        (CnrFetched(r) /\ ~FormComplete(fetched[r].response.content)) =>
            /\ pc[r] = "done"
            /\ result[r].status = "error"
            /\ result[r].message.fmt = "CNR search form not found on services page"
            /\ ~IssuedSubmit(r)
            /\ pending[r].method = "none"

\* a search with a token on a page that lacks only the verification input
TokenOnPageWithoutCaptchaInput ==
    \E r \in Req :
        /\ CnrFetched(r)
        /\ truthy(req[r].captcha_code)
        /\ HasInputNamed(fetched[r].response.content, <<"c","i","n","o">>)
        /\ ~HasInputNamed(fetched[r].response.content, <<"f","c","a","p","t","c","h","a","_","c","o","d","e">>)
        /\ HasForm(fetched[r].response.content)
        /\ result[r].status = "error"

NamedHiddenInputs(form) ==
    {e \in Range(descendants(form)) :
        /\ e.tag = "input"
        /\ has_attr(e, "type") /\ e.attrs["type"] = <<"h","i","d","d","e","n">>
        /\ has_attr(e, "name") /\ e.attrs["name"] # <<>>}

\* C3: every named hidden input of the form is in the submitted field map
\* with its own value, and cino and fcaptcha_code carry the caller's values
\* even when the form has hidden inputs of those names.
HiddenForwardedCallerValuesKept ==
    (fcall.fn = "_submit_cnr_search" /\ "data" \in DOMAIN fret) =>
        /\ \A h \in NamedHiddenInputs(fcall.form) :
              /\ h.attrs["name"] \in DOMAIN fret.data
              /\ fret.data[h.attrs["name"]] = get(h, "value", <<>>)
        /\ fret.data[<<"c","i","n","o">>] = fcall.cnr
        /\ fret.data[<<"f","c","a","p","t","c","h","a","_","c","o","d","e">>] = fcall.captcha_code

SearchTags ==
    {"error", "captcha_required", "search_failed", "case_found", "no_case_data",
     "unexpected_response", "found"}

ListingTags == {"captcha_required", "connected", "connection_failed", "error"}

\* C4: whatever the GET and the submission do (raise, answer with another
\* status than 200, answer 200 with any body), search_by_cnr,
\* search_by_case_details and get_case_listing return a record with a
\* status tag, and no exception reaches their caller.
EverySearchReturnsTagged ==
    \A r \in Req :
        (pc[r] = "done" /\ calls[r] # <<>>) =>
            /\ ~IsRaised(result[r])
            /\ "status" \in DOMAIN result[r]
            /\ result[r].status \in SearchTags
            /\ "status" \in DOMAIN answer[r].data
            /\ answer[r].data.status \in SearchTags \cup ListingTags

\* a submission that raised, returned as an error record
SubmitRaisedReturnedAsError ==
    \E r \in Req :
        /\ pc[r] = "done"
        /\ IssuedSubmit(r)
        /\ result[r] = error_record(Msg("{}", <<"Timeout">>))

\* C5: with the form found, a search without a verification token (None or
\* empty) ends as captcha_required and never submits; with a token it
\* submits, and its result is never captcha_required.
CaptchaGate ==
    \A r \in Req :
        (CnrFetched(r) /\ FormComplete(fetched[r].response.content)) =>
            IF truthy(req[r].captcha_code)
              THEN \/ pc[r] = "submitting" /\ pending[r].method # "none"
                   \/ /\ pc[r] = "done"
                      /\ IssuedSubmit(r)
                      /\ result[r].status # "captcha_required"
            ELSE /\ pc[r] = "done"
                 /\ result[r].status = "captcha_required"
                 /\ ~IssuedSubmit(r)
                 /\ pending[r].method = "none"

\* a search with the empty token, stopped at captcha_required
EmptyTokenStopsAtCaptcha ==
    \E r \in Req :
        /\ CnrFetched(r)
        /\ FormComplete(fetched[r].response.content)
        /\ req[r].captcha_code = Some(<<>>)
        /\ result[r].status = "captcha_required"
        /\ ~IssuedSubmit(r)

CallKinds(r) == [i \in 1..Len(calls[r]) |-> calls[r][i].kind]

FetchFailed(r) ==
    /\ calls[r] # <<>>
    /\ \/ "exc" \in DOMAIN fetched[r].response
       \/ fetched[r].response.status_code # 200

\* C6: one search issues at most one fetch and at most one submission, in
\* that order and without retry; it submits only after its own GET returned
\* 200 and the form was found; a GET that raises or returns another status
\* ends the search with an error record and no further call.
SequentialNoRetry ==
    \A r \in Req :
        /\ CallKinds(r) \in {<<>>, <<"fetch">>, <<"fetch", "submit">>}
        /\ pc[r] = "fetching" => calls[r] = <<>>
        /\ pc[r] = "submitting" => CallKinds(r) = <<"fetch">>
        /\ (pc[r] = "submitting" \/ IssuedSubmit(r)) =>
              CnrFetched(r) /\ FormComplete(fetched[r].response.content)
        /\ FetchFailed(r) =>
              /\ pc[r] = "done"
              /\ result[r].status = "error"
              /\ CallKinds(r) = <<"fetch">>

\* a search with a token whose GET returned 503 with a complete form
FailedFetchEndsSearch ==
    \E r \in Req :
        /\ pc[r] = "done"
        /\ req[r].op = "cnr"
        /\ truthy(req[r].captcha_code)
        /\ "exc" \notin DOMAIN fetched[r].response
        /\ fetched[r].response.status_code = 503
        /\ FormComplete(fetched[r].response.content)
        /\ CallKinds(r) = <<"fetch">>

\* C7: concurrent API requests are independent: while a request is between
\* its fetch and its submission, the session state its fetch left is not
\* overwritten by another request.
SessionsIndependent ==
    \A r \in Req :
        pc[r] = "submitting" =>
            jar[session_of(req[r], r)] = fetched[r].cookie

\* C8: the submission of a search carries exactly the session state that
\* the search's own fetch established.
SubmitCarriesFetchSession ==
    \A r \in Req :
        \A i \in 1..Len(calls[r]) :
            calls[r][i].kind = "submit" => calls[r][i].cookie = fetched[r].cookie

\* C9: the status tag of a record determines its fields: the record
\* get_case_listing returns has the same field names as every record of
\* the same tag that the searches return.
TagDeterminesFields ==
    (fcall.fn = "get_case_listing" /\ fret.status # "none") =>
        \A x \in ReturnedRecords :
            x.status = fret.status => DOMAIN x = DOMAIN fret

Listed == fcall.fn = "get_case_listing" /\ fret.status # "none"

\* C10: get_case_listing selects its tag from the fields of its input
\* alone: captcha_required when connection is "success" and captcha_required
\* is true; connected when connection is "success", captcha_required is not
\* true and website_accessible is true; connection_failed for every other
\* dictionary; error only when the input is no dictionary; the page title
\* and the case details it reports are those of its input, and it issues
\* no network call.
ListingTagSelection ==
    Listed =>
        LET p == fcall.search_params
            success    == dict_get(p, "connection", "") = "success"
            captcha    == dict_get(p, "captcha_required", FALSE)
            accessible == dict_get(p, "website_accessible", FALSE)
        IN  /\ fret.status \in ListingTags
            /\ fret.status =
                  IF "py_none" \in DOMAIN p THEN "error"
                  ELSE IF success /\ captcha THEN "captcha_required"
                  ELSE IF success /\ accessible THEN "connected"
                  ELSE "connection_failed"
            /\ fret.status \in {"captcha_required", "connected"} =>
                  fret.case_details = p
            /\ fret.status = "connected" =>
                  fret.page_title = dict_get(p, "page_title", <<"e","C","o","u","r","t","s"," ","S","e","r","v","i","c","e","s">>)
            /\ \A r \in Req : calls[r] = <<>>

\* an input with connection "success", captcha_required false and
\* website_accessible true, reported as connected
ConnectedWithFalseCaptchaFlag ==
    /\ Listed
    /\ fret.status = "connected"
    /\ "captcha_required" \in DOMAIN fcall.search_params
    /\ ~fcall.search_params.captcha_required

\* C11: every record get_case_listing returns, whatever its tag, carries
\* the target date it was called with and a message that is not empty.
ListingCarriesDateAndMessage ==
    Listed =>
        /\ "date" \in DOMAIN fret
        /\ fret.date = fcall.target_date
        /\ "message" \in DOMAIN fret
        /\ fret.message # <<>>

\* the input of a listing has the shape of the captcha_required record of
\* search_by_cnr / of the connected record of search_by_case_details
CaptchaShaped(p) ==
    /\ dict_get(p, "connection", "") = "success"
    /\ dict_get(p, "captcha_required", FALSE)

ConnectedShaped(p) ==
    /\ dict_get(p, "connection", "") = "success"
    /\ ~dict_get(p, "captcha_required", FALSE)
    /\ dict_get(p, "website_accessible", FALSE)

\* C12: get_case_listing on a captcha_required-shaped input returns the tag
\* captcha_required and no page_title; on a connected-shaped input it returns
\* the tag connected and no captcha_status.
ListingKeepsTagsApart ==
    Listed =>
        /\ CaptchaShaped(fcall.search_params) =>
              /\ fret.status = "captcha_required"
              /\ "captcha_status" \in DOMAIN fret
              /\ "page_title" \notin DOMAIN fret
        /\ ConnectedShaped(fcall.search_params) =>
              /\ fret.status = "connected"
              /\ "page_title" \in DOMAIN fret
              /\ "captcha_status" \notin DOMAIN fret

\* the captcha_required record of search_by_cnr, which also says the website
\* is accessible, has been normalised
CaptchaRecordNormalised ==
    /\ Listed
    /\ fcall.search_params \in ReturnedRecords
    /\ fcall.search_params.status = "captcha_required"
    /\ dict_get(fcall.search_params, "website_accessible", FALSE)
    /\ fret.status = "captcha_required"

Submitted == fcall.fn = "_submit_cnr_search" /\ "method" \in DOMAIN fret

\* C13: the submission is a POST when the form's method is POST in any
\* letter case or the form names no method, and a GET only when the form's
\* method is GET in any letter case; the fields travel as form data with a
\* POST and as query parameters with a GET, to the form's action.
MethodTakenFromForm ==
    Submitted =>
        LET form == fcall.form
            named == has_attr(form, "method") /\ form.attrs["method"] # <<>>
        IN  /\ (~named \/ lower(form.attrs["method"]) = <<"p","o","s","t">>) =>
                  fret.method = "POST"
            /\ fret.method = "GET" =>
                  named /\ lower(form.attrs["method"]) = <<"g","e","t">>
            /\ fret.method \in {"POST", "GET"}
            /\ fret.sent_as = IF fret.method = "POST" THEN "data" ELSE "params"
            /\ fret.url = urljoin(services_url, get(form, "action", <<>>))

ImagesOf(content) ==
    SelectSeq(descendants(BeautifulSoup(content)),
              LAMBDA n : ~IsString(n) /\ n.tag = "img")

MentionsCaptcha(e, attr) ==
    has_attr(e, attr) /\ In(<<"c","a","p","t","c","h","a">>, lower(e.attrs[attr]))

\* the first image of the sequence whose attribute mentions captcha
FirstMentioning(imgs, attr) ==
    imgs[CHOOSE i \in DOMAIN imgs :
            /\ MentionsCaptcha(imgs[i], attr)
            /\ \A j \in 1..(i - 1) : ~MentionsCaptcha(imgs[j], attr)]

AwaitsCaptcha ==
    /\ fcall.fn = "search_by_cnr"
    /\ fret # NoResult
    /\ FormComplete(fcall.response.content)
    /\ ~truthy(fcall.captcha_code)

\* C14: with the form found and no token, the result is captcha_required
\* with the challenge flagged; its image URL is the source of the first image
\* whose alt text mentions captcha, wherever it stands; failing that, of the
\* first image whose source mentions captcha; failing both, it is null.
CaptchaImagePrecedence ==
    AwaitsCaptcha =>
        LET imgs == ImagesOf(fcall.response.content)
            byAlt == \E i \in DOMAIN imgs : MentionsCaptcha(imgs[i], "alt")
            bySrc == \E i \in DOMAIN imgs : MentionsCaptcha(imgs[i], "src")
        IN  /\ fret.status = "captcha_required"
            /\ fret.captcha_required
            /\ fret.captcha_url =
                  IF byAlt
                    THEN Some(urljoin(services_url,
                                      get(FirstMentioning(imgs, "alt"), "src", <<>>)))
                  ELSE IF bySrc
                    THEN Some(urljoin(services_url,
                                      FirstMentioning(imgs, "src").attrs["src"]))
                  ELSE None

\* an image matched by its source only stands before the image matched by
\* its alt text, and the URL reported is the latter's
SourceMatchPassedOver ==
    /\ AwaitsCaptcha
    /\ LET imgs == ImagesOf(fcall.response.content)
       IN  /\ Len(imgs) = 2
           /\ MentionsCaptcha(imgs[1], "src") /\ ~MentionsCaptcha(imgs[1], "alt")
           /\ MentionsCaptcha(imgs[2], "alt")
           /\ has_attr(imgs[2], "src")
           /\ fret.captcha_url = Some(urljoin(services_url, imgs[2].attrs["src"]))

CssPatterns ==
    {<<"{">>, <<"}">>, <<"p","a","d","d","i","n","g",":">>, <<"m","a","r","g","i","n",":">>, <<"b","o","r","d","e","r",":">>, <<"c","o","l","o","r",":">>, <<"f","o","n","t","-">>}

IsDebris(text) == \E c \in CssPatterns : In(c, text)

\* the message of a search_failed record, as the f-string renders it
Rendered(message) == <<"S","e","a","r","c","h"," ","f","a","i","l","e","d",":"," ">> \o message.arg

\* the texts below the script and style elements of a document
HiddenTexts(content) ==
    {strip(n.s) : n \in
        {n \in UNION {Range(descendants(e)) :
                        e \in {e \in Elements(content) : e.tag \in {"script", "style"}}} :
            IsString(n)}}

\* every string a classifier record hands to its reader
Surfaced(rec) ==
    (IF rec.status = "search_failed" THEN {Rendered(rec.message)} ELSE {})
    \cup (IF rec.status = "case_found"
            THEN Range(rec.status_indicators) \cup DOMAIN rec.case_details
                 \cup Range(rec.case_details)
          ELSE {})
    \cup (IF rec.status = "no_case_data" THEN {rec.page_content_sample} ELSE {})

\* C15: no search_failed message and no status indicator holds a brace or
\* one of padding:, margin:, border:, color:, font-, and no text of a script
\* or style element appears in anything the classifier returns.
CssNeverSurfaced ==
    Classified =>
        /\ fret.status = "search_failed" => ~IsDebris(Rendered(fret.message))
        /\ fret.status = "case_found" =>
              \A i \in DOMAIN fret.status_indicators :
                  ~IsDebris(fret.status_indicators[i])
        /\ \A hidden \in HiddenTexts(fcall.html_content) :
              \A text \in Surfaced(fret) : ~In(lower(hidden), lower(text))

\* a document of two texts that both match a keyword set and both hold a CSS
\* pattern, one of each set, has been classified
DebrisOfBothSetsClassified ==
    /\ Classified
    /\ Len(fcall.html_content) = 2
    /\ \E e \in ErrorDebris, t \in StatusDebris :
          fcall.html_content = <<Div(t), Div(e)>>
    /\ fret.status \notin {"search_failed", "case_found"}

\* the elements of the visible document, in document order, whose string
\* holds an error keyword
ErrorMatches(content) ==
    SelectSeq(descendants(Visible(content)),
              LAMBDA n : /\ ~IsString(n)
                         /\ n.tag \in {"div", "span", "p", "td"}
                         /\ string(n) # <<>>
                         /\ \E w \in {<<"e","r","r","o","r">>, <<"i","n","v","a","l","i","d">>, <<"n","o","t"," ","f","o","u","n","d">>, <<"i","n","c","o","r","r","e","c","t">>} :
                               In(w, lower(string(n)[1])))

\* C20: the message of search_failed is the text of the first element, in
\* document order, that matches an error keyword and is not CSS debris, the
\* debris matches before it being skipped; when every match is debris the
\* result is not search_failed but what the later rules give.
FirstCleanErrorReported ==
    Classified =>
        LET matches == ErrorMatches(fcall.html_content)
            clean   == SelectSeq(matches, LAMBDA e : ~IsDebris(get_text(e, TRUE)))
        IN  IF clean # <<>>
              THEN /\ fret.status = "search_failed"
                   /\ fret.message.arg = get_text(clean[1], TRUE)
            ELSE /\ fret.status =
                       IF HasCaseField(fcall.html_content)
                          \/ HasStatusIndicator(fcall.html_content) THEN "case_found"
                       ELSE IF MentionsCaseOrCourt(fcall.html_content) THEN "no_case_data"
                       ELSE "unexpected_response"

\* a debris match stands before a clean match and the message is the
\* clean one
DebrisSkippedCleanReported ==
    /\ Classified
    /\ fret.status = "search_failed"
    /\ LET matches == ErrorMatches(fcall.html_content)
       IN  /\ Len(matches) = 2
           /\ IsDebris(get_text(matches[1], TRUE))
           /\ ~IsDebris(get_text(matches[2], TRUE))
           /\ fret.message.arg = get_text(matches[2], TRUE)

\* the input of a request passes validation: a CNR that is a string of at
\* least 10 characters or the demo CNR; a case type, a case number and a
\* case year that are all given, the year an integer from 1950 to this year
WellFormed(q) ==
    IF q.op = "cnr"
      THEN /\ q.cnr # None
           /\ isinstance_str(q.cnr[1])
           /\ (Len(q.cnr[1]) >= 10 \/ lower(q.cnr[1]) = <<"d","e","m","o","1","2","3">>)
    ELSE /\ truthy(q.case_type) /\ truthy(q.case_number) /\ truthy(q.case_year)
         /\ ~IsRaised(int(q.case_year[1]))
         /\ int(q.case_year[1]).value \in 1950..current_year

Received(r) == pc[r] \notin {"absent", "idle"}

\* C16: a request whose input fails validation is answered at once: no
\* fetch and no submission is issued for it, the API answers 400 and the CLI
\* prints its error line.
InvalidInputRejectedEarly ==
    \A r \in Req :
        (Received(r) /\ ~WellFormed(req[r])) =>
            /\ pc[r] = "done"
            /\ calls[r] = <<>>
            /\ result[r] = NoResult
            /\ req[r].client = "api" => answer[r].code = 400
            /\ req[r].client = "cli" =>
                  answer[r].echo \in {<<"Error: Invalid CNR format">>,
                                      <<"Error: Invalid case details">>}

SearchEndedInError(r) == pc[r] = "done" /\ result[r].status = "error"

\* C17: when the search of a request returns an error record, the API
\* answers 500 with that record and the CLI prints an error line with the
\* record's message; the record is passed on under its own tag.
ErrorRecordSurfaced ==
    \A r \in Req :
        SearchEndedInError(r) =>
            /\ answer[r].data = result[r]
            /\ req[r].client = "api" => answer[r].code = 500
            /\ req[r].client = "cli" =>
                  \E i \in DOMAIN answer[r].echo : answer[r].echo[i] = "Error: {message}"

DemoRequested(r) ==
    /\ Received(r)
    /\ req[r].op = "cnr"
    /\ req[r].cnr # None
    /\ isinstance_str(req[r].cnr[1])
    /\ lower(req[r].cnr[1]) = <<"d","e","m","o","1","2","3">>

\* C18: a CNR search for DEMO123 in any letter case, through the API or the
\* CLI, is answered with a case_found record whose case number is
\* DEMO/123/2024 and whose case status is Pending, and issues no network
\* call.
DemoAlwaysCaseFound ==
    \A r \in Req :
        DemoRequested(r) =>
            /\ pc[r] = "done"
            /\ calls[r] = <<>>
            /\ answer[r].code = IF req[r].client = "api" THEN 200 ELSE 0
            /\ answer[r].data.status = "case_found"
            /\ answer[r].data.cnr = req[r].cnr[1]
            /\ answer[r].data.case_details.case_number = <<"D","E","M","O","/","1","2","3","/","2","0","2","4">>
            /\ answer[r].data.case_details.status = <<"P","e","n","d","i","n","g">>

\* the demo CNR written in mixed case has been answered by the CLI and in
\* lower case by the API
MixedCaseDemoAnswered ==
    \E r \in Req :
        /\ DemoRequested(r)
        /\ req[r].cnr[1] \in {<<"d","E","m","o","1","2","3">>, <<"d","e","m","o","1","2","3">>}
        /\ answer[r].data.status = "case_found"

Validated == fcall.fn = "validate_case_details" /\ fret # NoResult

Present(x) == x # None /\ x[1] # <<>>

IsDecimal(c) == c \in {"0", "1", "2", "3", "4", "5", "6", "7", "8", "9"}

\* the text is an integer as Python reads one: decimal digits, single
\* underscores allowed between them, an optional sign before, blanks around
IntegerText(s) ==
    LET t    == strip(s)
        body == IF t # <<>> /\ t[1] \in {"+", "-"} THEN Tail(t) ELSE t
    IN  /\ body # <<>>
        /\ \A i \in DOMAIN body : IsDecimal(body[i]) \/ body[i] = "_"
        /\ IsDecimal(body[1]) /\ IsDecimal(body[Len(body)])
        /\ \A i \in 1..(Len(body) - 1) : body[i] = "_" => IsDecimal(body[i + 1])

RECURSIVE NumberOf(_)
NumberOf(ds) ==
    IF ds = <<>> THEN 0
    ELSE 10 * NumberOf(SubSeq(ds, 1, Len(ds) - 1))
         + (CHOOSE d \in 0..9 : ToString(d) = ds[Len(ds)])

IntegerOf(s) ==
    LET t == strip(s)
        n == NumberOf(SelectSeq(t, IsDecimal))
    IN  IF t[1] = "-" THEN 0 - n ELSE n

\* C19: validate_case_details returns a boolean for every case year given
\* as a string or missing; it returns True exactly when case type, case
\* number and case year are present and the year reads as an integer from
\* 1950 to the current year; so a year that is no number, or a number below
\* 1950 or above the current year, is rejected.
CaseDetailsAcceptedInRangeOnly ==
    Validated =>
        /\ DOMAIN fret = {"value"}
        /\ fret.value =
              (/\ Present(fcall.case_type)
               /\ Present(fcall.case_number)
               /\ Present(fcall.case_year)
               /\ IntegerText(fcall.case_year[1])
               /\ IntegerOf(fcall.case_year[1]) >= 1950
               /\ IntegerOf(fcall.case_year[1]) <= current_year)

\* the first year after the current one, rejected with type and number given
NextYearRejected ==
    /\ Validated
    /\ Present(fcall.case_type) /\ Present(fcall.case_number)
    /\ fcall.case_year = Some(<<"2","0","2","7">>)
    /\ fret = [value |-> FALSE]

CnrSearchDone(r) == pc[r] = "done" /\ req[r].op = "cnr" /\ calls[r] # <<>>

\* the tags of search_by_cnr that a caller hands to get_case_listing
TagsNormalised(client) ==
    IF client = "api" THEN {"unexpected_response"}
    ELSE {"unexpected_response", "error"}

CaseSearchSent(r) ==
    /\ Received(r)
    /\ req[r].op = "case"
    /\ (pc[r] = "done" => calls[r] # <<>>)

TitleOf(content) ==
    LET titles == SelectSeq(descendants(BeautifulSoup(content)),
                            LAMBDA n : ~IsString(n) /\ n.tag = "title")
    IN  IF titles = <<>> THEN <<"e","C","o","u","r","t","s"," ","S","e","r","v","i","c","e","s">>
        ELSE strip(get_text(titles[1], FALSE))

\* C22: a search by case type, number and year issues one GET and no
\* submission; on every 200 response it returns a found record holding the
\* caller's three values, the date and the page title, whatever the page
\* holds, and the caller reports it as connected.
CaseSearchOneFetchFound ==
    \A r \in Req :
        CaseSearchSent(r) =>
            /\ pc[r] \in {"fetching", "done"}
            /\ pending[r] = NoPending
            /\ pc[r] = "fetching" => calls[r] = <<>>
            /\ pc[r] = "done" =>
                  /\ Len(calls[r]) = 1
                  /\ calls[r][1].kind = "fetch"
                  /\ ("exc" \notin DOMAIN fetched[r].response
                      /\ fetched[r].response.status_code = 200) =>
                        /\ result[r] =
                              [status |-> "found",
                               case_type |-> req[r].case_type[1],
                               case_number |-> req[r].case_number[1],
                               case_year |-> req[r].case_year[1],
                               date |-> target_date_of(req[r].date),
                               connection |-> "success",
                               website_accessible |-> TRUE,
                               page_title |-> TitleOf(fetched[r].response.content),
                               new_scraper |-> TRUE]
                        /\ answer[r].data.status = "connected"
                        /\ answer[r].data.page_title = result[r].page_title
                        /\ answer[r].data.case_details = result[r]

\* a page that holds the complete search form, fetched by a case search and
\* reported as connected
FormPageReportedConnected ==
    \E r \in Req :
        /\ CaseSearchSent(r)
        /\ pc[r] = "done"
        /\ "exc" \notin DOMAIN fetched[r].response
        /\ fetched[r].response.status_code = 200
        /\ FormComplete(fetched[r].response.content)
        /\ result[r].status = "found"
        /\ answer[r].data.status = "connected"


====
